---------------------------- MODULE Spec2Model ----------------------------
(***************************************************************************)
(* Behaviour model and plan generator of the fitness backend:              *)
(*   backend/behavior_model.py  (BehaviorModel: scores, policy)            *)
(*   backend/ai_engine.py       (generate_plan, generate_nudges)           *)
(*                                                                         *)
(* Numbers.  A Python float is modelled as an exact rational               *)
(* [nan, n, d] (d > 0) or NaN; a score that the code rounds with           *)
(* round(x, 2) is modelled as the integer number of hundredths.            *)
(* Time is counted in hours since 2023-12-25T00:00 (the server's local     *)
(* zone is taken to be UTC, so date.today() is the day of utcnow()).       *)
(* Calendar dates are the ISO strings the code stores and compares,        *)
(* modelled as sequences of character codes.                               *)
(***************************************************************************)
EXTENDS Integers, Sequences, FiniteSets, Bags, TLC

VARIABLES
    now,        \* wall clock, hours since the epoch
    sensordata, \* db.sensordata: set of metric samples
    plans,      \* db.plans: bag of plan documents
    recs,       \* db.recommendations: sequence of inserted documents
    pc,         \* per request: position inside generate_plan (race model)
    local,      \* per request: the locals of generate_plan (race model)
    calls,      \* number of handler calls made so far
    tieUp,      \* whether a double that sits on a decimal tie rounds up
    out         \* observation of the last operation (what it returned)

vars == <<now, sensordata, plans, recs, pc, local, calls, tieUp, out>>

----------------------------------------------------------------------------
(* Bounds of the model                                                     *)

MaxSamples == 3
MaxCalls == 3
MaxHour == 72
MaxNudges == 1
MaxHistory == 7
MaxReadings == 4
MaxSteps == 8

----------------------------------------------------------------------------
(* Program constants                                                       *)

HR_FALLBACK == 75
SLEEP_FALLBACK == 70
HOURS_BASELINE == 24 * 14
HOURS_DAY == 24
HOURS_WEEK == 24 * 7
VALUES_LIMIT == 500
SLEEP_RECENT == 3
ADHERENCE_DAYS == 7
STEPS_LIMIT == 6

Users == {"u1", "u2"}
Tiers == {"Low", "Moderate", "High"}
None == "<None>"

----------------------------------------------------------------------------
(* Python floats as exact rationals                                        *)

Rat(n, d) == [nan |-> FALSE, n |-> n, d |-> d]
NaN == [nan |-> TRUE, n |-> 0, d |-> 1]

RatAdd(x, y) ==
    IF x.nan \/ y.nan THEN NaN ELSE Rat(x.n * y.d + y.n * x.d, x.d * y.d)
RatSub(x, y) ==
    IF x.nan \/ y.nan THEN NaN ELSE Rat(x.n * y.d - y.n * x.d, x.d * y.d)
RatMul(x, y) ==
    IF x.nan \/ y.nan THEN NaN ELSE Rat(x.n * y.n, x.d * y.d)
\* x / k for a positive integer constant k
RatDivInt(x, k) ==
    IF x.nan THEN NaN ELSE Rat(x.n, x.d * k)
\* Python's x < y: False when either side is NaN
RatLt(x, y) ==
    IF x.nan \/ y.nan THEN FALSE ELSE x.n * y.d < y.n * x.d

\* min(a, b) and max(a, b) of two arguments as CPython evaluates them: the
\* first argument is kept unless the second compares strictly better.
PyMin(a, b) == IF RatLt(b, a) THEN b ELSE a
PyMax(a, b) == IF RatLt(a, b) THEN b ELSE a

RECURSIVE SeqSum(_)
SeqSum(s) == IF s = <<>> THEN Rat(0, 1) ELSE RatAdd(Head(s), SeqSum(Tail(s)))

\* statistics.mean of a non-empty list of floats
mean(s) ==
    LET t == SeqSum(s) IN IF t.nan THEN NaN ELSE Rat(t.n, t.d * Len(s))

\* round(x, 2) of completed / len(plans), as hundredths.  The quotient of two
\* small integers is a tie only when it is a multiple of 1/8 (len < 40), which
\* a double holds exactly, so round() rounds half to even.
Round2(x) ==
    LET num == 100 * x.n
        q == num \div x.d
        r == num % x.d
    IN  IF 2 * r < x.d THEN q
        ELSE IF 2 * r > x.d THEN q + 1
        ELSE IF q % 2 = 0 THEN q ELSE q + 1

\* round(x, 2) of 0.4 * h + 0.6 * s.  Off a decimal tie the double rounds to
\* the nearest hundredth.  On an exact decimal tie (x.xx5) the binary sum
\* lies marginally above or below the tie, depending on the operands, and
\* round() follows it: up says which side.
Round2Binary(x, up) ==
    LET num == 100 * x.n
        q == num \div x.d
        r == num % x.d
    IN  IF 2 * r < x.d THEN q
        ELSE IF 2 * r > x.d THEN q + 1
        ELSE IF up THEN q + 1 ELSE q

----------------------------------------------------------------------------
(* Strings and calendar dates                                              *)

\* s < t for two strings (sequences of character codes), as Python and the
\* store compare them: code by code, a proper prefix first.
RECURSIVE StrLt(_, _)
StrLt(s, t) ==
    IF t = <<>> THEN FALSE
    ELSE IF s = <<>> THEN TRUE
    ELSE IF Head(s) # Head(t) THEN Head(s) < Head(t)
    ELSE StrLt(Tail(s), Tail(t))

StrGte(s, t) == ~StrLt(s, t)

Digit(x) == 48 + x
Dash == 45

\* date.isoformat() of the day n days after 2023-12-25 (n in -24..37):
\* "YYYY-MM-DD", zero padded.
IsoFormat(n) ==
    LET k == n + 24
        y == IF k < 31 THEN 2023 ELSE 2024
        m == IF k < 31 THEN 12 ELSE 1
        d == IF k < 31 THEN k + 1 ELSE k - 30
    IN  << Digit(y \div 1000), Digit((y \div 100) % 10), Digit((y \div 10) % 10),
           Digit(y % 10), Dash, Digit(m \div 10), Digit(m % 10), Dash,
           Digit(d \div 10), Digit(d % 10) >>

\* date.today() as a day number, and datetime.utcnow() in hours
Today(t) == t \div 24

----------------------------------------------------------------------------
(* backend/behavior_model.py                                               *)

\* the clamp without its floor
clamp_no_floor(x) == PyMin(Rat(1, 1), x)

\* _clamp(x, lo=0.1, hi=1.0): max(lo, min(hi, x))
clamp(x) == PyMax(Rat(1, 10), PyMin(Rat(1, 1), x))

\* float(d["value"]) succeeds: the field is there and holds a number or a
\* numeric string.  KeyError (no field), TypeError (null) and ValueError
\* (other text) are the three exceptions _values catches.
FloatOk(d) == d.hasValue /\ d.kind \in {"num", "numstr", "nan"}
FloatOf(d) == IF d.kind = "nan" THEN NaN ELSE Rat(d.num, 1)

\* cursor.sort("ts", -1): newest first
RECURSIVE SortTsDesc(_)
SortTsDesc(S) ==
    IF S = {} THEN <<>>
    ELSE LET d == CHOOSE x \in S : \A y \in S : y.ts <= x.ts
         IN  <<d>> \o SortTsDesc(S \ {d})

Take(s, k) == SubSeq(s, 1, IF k < Len(s) THEN k ELSE Len(s))

\* the loop of _values: append float(value), skip what does not convert
RECURSIVE FloatsOf(_)
FloatsOf(cur) ==
    IF cur = <<>> THEN <<>>
    ELSE IF FloatOk(Head(cur)) THEN <<FloatOf(Head(cur))>> \o FloatsOf(Tail(cur))
    ELSE FloatsOf(Tail(cur))

\* BehaviorModel._values(user_id, metric, hours, limit)
values(sd, t, user_id, metric, hours, limit) ==
    LET since == t - hours
        cur == Take(SortTsDesc({d \in sd : /\ d.userId = user_id
                                           /\ d.metricType = metric
                                           /\ d.ts >= since}), limit)
    IN  FloatsOf(cur)

\* the window with its lower bound excluded
recent_plans_gt(pl, t, user_id, days) ==
    LET since_str == IsoFormat(Today(t) - days)
        found == {p \in BagToSet(pl) : p.userId = user_id /\ StrLt(since_str, p.date)}
    IN  [p \in found |-> CopiesIn(p, pl)]

\* BehaviorModel._recent_plans(user_id, days): the documents found, as a bag
recent_plans(pl, t, user_id, days) ==
    LET since_str == IsoFormat(Today(t) - days)
        found == {p \in BagToSet(pl) : p.userId = user_id /\ StrGte(p.date, since_str)}
    IN  [p \in found |-> CopiesIn(p, pl)]

\* sum(1 for p in plans if p.get("status") == "Completed")
CompletedCount(found) ==
    BagCardinality([p \in {q \in BagToSet(found) : q.status = "Completed"}
                       |-> CopiesIn(p, found)])

\* BehaviorModel.adherence_score(user_id, days=7), in hundredths
adherence_score(pl, t, user_id, days) ==
    LET found == recent_plans(pl, t, user_id, days)
    IN  IF BagToSet(found) = {} THEN 50
        ELSE Round2(Rat(CompletedCount(found), BagCardinality(found)))

hr_score(sd, t, user_id) ==
    LET hr_base_vals == values(sd, t, user_id, "HR", HOURS_BASELINE, VALUES_LIMIT)
        hr_baseline == IF hr_base_vals # <<>> THEN mean(hr_base_vals)
                       ELSE Rat(HR_FALLBACK, 1)
        hr_recent == values(sd, t, user_id, "HR", HOURS_DAY, VALUES_LIMIT)
        hr_avg == IF hr_recent # <<>> THEN mean(hr_recent) ELSE hr_baseline
        hr_delta == RatSub(hr_baseline, hr_avg)
    IN  clamp(RatAdd(Rat(1, 2), RatDivInt(hr_delta, 20)))

sleep_score(sd, t, user_id) ==
    LET sleep_base_vals == values(sd, t, user_id, "SleepScore", HOURS_BASELINE, VALUES_LIMIT)
        sleep_baseline == IF sleep_base_vals # <<>> THEN mean(sleep_base_vals)
                          ELSE Rat(SLEEP_FALLBACK, 1)
        sleep_recent == Take(values(sd, t, user_id, "SleepScore", HOURS_WEEK, VALUES_LIMIT),
                             SLEEP_RECENT)
        sleep_avg == IF sleep_recent # <<>> THEN mean(sleep_recent) ELSE sleep_baseline
    IN  clamp(RatDivInt(sleep_avg, 100))

\* BehaviorModel.readiness_score(user_id), with its two sub-scores
readiness_locals(sd, t, user_id, up) ==
    LET h == hr_score(sd, t, user_id)
        sl == sleep_score(sd, t, user_id)
    IN  [hr_score |-> h, sleep_score |-> sl,
         readiness |-> Round2Binary(RatAdd(RatMul(Rat(4, 10), h), RatMul(Rat(6, 10), sl)), up)]

\* BehaviorModel.readiness_score(user_id), in hundredths
readiness_score(sd, t, user_id, up) == readiness_locals(sd, t, user_id, up).readiness

\* the thresholds with r >= 0.8 for High
classify_ge(r, a) ==
    IF r >= 80 /\ a >= 60 THEN "High"
    ELSE IF r >= 60 THEN "Moderate"
    ELSE "Low"

\* the base thresholds of next_best_intensity (r and a in hundredths)
classify(r, a) ==
    IF r > 80 /\ a >= 60 THEN "High"
    ELSE IF r >= 60 THEN "Moderate"
    ELSE "Low"

\* db.plans.find_one({"userId": u}, sort=[("date", -1)]): <<>> or <<doc>>
find_last_plan(pl, user_id) ==
    LET mine == {p \in BagToSet(pl) : p.userId = user_id}
    IN  IF mine = {} THEN <<>>
        ELSE <<CHOOSE p \in mine : \A q \in mine : ~StrLt(p.date, q.date)>>

\* the first item of type Workout decides, whatever its intensity field holds
RECURSIVE FirstWorkoutIntensity(_)
FirstWorkoutIntensity(items) ==
    IF items = <<>> THEN None
    ELSE IF Head(items).type = "Workout" THEN Head(items).intensity
    ELSE FirstWorkoutIntensity(Tail(items))

last_intensity_of(last) ==
    IF last # <<>> /\ last[1].items # <<>> THEN FirstWorkoutIntensity(last[1].items)
    ELSE None

\* a Python value used as a condition: None and "" are false
Truthy(x) == x # None /\ x # ""

\* order.get(x, 1)
order(x) ==
    CASE x = "Low" -> 0
      [] x = "Moderate" -> 1
      [] x = "High" -> 2
      [] OTHER -> 1

\* hysteresis with the High -> Low branch lost
hysteresis_no_down_clamp(target, last_intensity) ==
    IF Truthy(last_intensity) THEN
        LET li == order(last_intensity)
            ti == order(target)
        IN  IF ti - li > 1 THEN "Moderate" ELSE target
    ELSE target

\* the hysteresis step of next_best_intensity
hysteresis(target, last_intensity) ==
    IF Truthy(last_intensity) THEN
        LET li == order(last_intensity)
            ti == order(target)
        IN  IF ti - li > 1 THEN "Moderate"
            ELSE IF li - ti > 1 THEN "Moderate"
            ELSE target
    ELSE target

\* next_best_intensity from the thresholds on, given the two scores
nbi_policy(r, a, pl, user_id) ==
    LET target == classify(r, a)
        last == find_last_plan(pl, user_id)
        last_intensity == last_intensity_of(last)
    IN  [r |-> r, a |-> a, raw |-> target, last_intensity |-> last_intensity,
         target |-> hysteresis(target, last_intensity)]

\* BehaviorModel.next_best_intensity(user_id), with its locals
nbi_locals(sd, pl, t, user_id, up) ==
    nbi_policy(readiness_score(sd, t, user_id, up),
               adherence_score(pl, t, user_id, ADHERENCE_DAYS), pl, user_id)

\* what next_best_intensity returns
next_best_intensity(sd, pl, t, user_id, up) ==
    nbi_locals(sd, pl, t, user_id, up).target

----------------------------------------------------------------------------
(* backend/ai_engine.py                                                    *)

\* models.plan_item(type, intensity, duration, description)
plan_item(type, intensity, duration, description) ==
    [type |-> type, intensity |-> intensity, durationMinutes |-> duration,
     description |-> description]

\* models.plan_doc(user_id, items, date, status)
plan_doc(user_id, items, date, status) ==
    [userId |-> user_id, date |-> date, status |-> status, items |-> items]

\* the rule-based plans of generate_plan
base ==
    [Low |-> << plan_item("Workout", "Low", 20, "Light mobility + walk"),
                plan_item("Habit", "Low", 5, "Hydrate: +1L"),
                plan_item("Recovery", "Low", 10, "Stretch + sleep target 8h") >>,
     Moderate |-> << plan_item("Workout", "Moderate", 35, "Bodyweight circuit + brisk walk"),
                     plan_item("Habit", "Low", 5, "2L water + protein target"),
                     plan_item("Recovery", "Low", 10, "Cooldown + mindfulness 5m") >>,
     High |-> << plan_item("Workout", "High", 45, "Intervals + strength"),
                 plan_item("Habit", "Low", 5, "Macros check + 2.5L water"),
                 plan_item("Recovery", "Low", 15, "Mobility + sleep hygiene") >>]

\* The behavior_model argument of generate_plan, by what its
\* next_best_intensity does: the BehaviorModel of this repository over a
\* data source that answers ("real") or whose read raises ("raises"), or
\* another object that returns None, "" or a name that is no tier.
BehaviorModels == {"real", "raises", "returns_none", "returns_empty", "returns_other"}

\* behavior_model.next_best_intensity(user_id): [raised, value]
bm_next_best_intensity(bm, sd, pl, t, user_id, up) ==
    CASE bm = "real" -> [raised |-> FALSE, value |-> next_best_intensity(sd, pl, t, user_id, up)]
      [] bm = "raises" -> [raised |-> TRUE, value |-> None]
      [] bm = "returns_none" -> [raised |-> FALSE, value |-> None]
      [] bm = "returns_empty" -> [raised |-> FALSE, value |-> ""]
      [] bm = "returns_other" -> [raised |-> FALSE, value |-> "Extreme"]

\* the fallback with another default in the except branch
safe_intensity_low_default(res) ==
    IF res.raised THEN "Low"
    ELSE IF Truthy(res.value) THEN res.value
    ELSE "Moderate"

\* try: intensity = next_best_intensity(user_id) or "Moderate"
\* except Exception: intensity = "Moderate"
safe_intensity(res) ==
    IF res.raised THEN "Moderate"
    ELSE IF Truthy(res.value) THEN res.value
    ELSE "Moderate"

\* base.get(intensity, base["Moderate"])
base_get(intensity) ==
    IF intensity \in DOMAIN base THEN base[intensity] ELSE base["Moderate"]

\* the plan document generate_plan builds for today
build_plan(user_id, intensity, t) ==
    plan_doc(user_id, base_get(intensity), IsoFormat(Today(t)), "Proposed")

\* the upsert with the date left out of its filter
update_one_upsert_user_only(pl, user_id, date, plan) ==
    LET hits == {p \in BagToSet(pl) : p.userId = user_id}
    IN  IF hits = {} THEN pl (+) SetToBag({plan})
        ELSE LET hit == CHOOSE p \in hits : TRUE
             IN  (pl (-) SetToBag({hit})) (+) SetToBag({plan})

\* db.plans.update_one({"userId": u, "date": d}, {"$set": plan}, upsert=True):
\* one matching document takes the fields of plan; with no match plan is inserted.
update_one_upsert(pl, user_id, date, plan) ==
    LET hits == {p \in BagToSet(pl) : p.userId = user_id /\ p.date = date}
    IN  IF hits = {} THEN pl (+) SetToBag({plan})
        ELSE LET hit == CHOOSE p \in hits : TRUE
             IN  (pl (-) SetToBag({hit})) (+) SetToBag({plan})

\* the status of a document update_one would hit, "" when there is none
StatusAt(pl, user_id, date) ==
    LET hits == {p \in BagToSet(pl) : p.userId = user_id /\ p.date = date}
    IN  IF hits = {} THEN "" ELSE (CHOOSE p \in hits : TRUE).status

\* generate_plan(user, behavior_model, db), start to return
generate_plan(user_id, bm) ==
    LET res == bm_next_best_intensity(bm, sensordata, plans, now, user_id, tieUp)
        intensity == safe_intensity(res)
        plan == build_plan(user_id, intensity, now)
        seen == IF bm = "real"
                THEN nbi_locals(sensordata, plans, now, user_id, tieUp)
                ELSE [r |-> 0, a |-> 0, raw |-> None, last_intensity |-> None,
                      target |-> res.value]
    IN  /\ calls < MaxCalls
        /\ plans' = update_one_upsert(plans, user_id, plan.date, plan)
        /\ calls' = calls + 1
        /\ out' = [op |-> "generate_plan", user |-> user_id, bm |-> bm,
                   intensity |-> intensity, ret |-> plan, seen |-> seen,
                   replaced |-> StatusAt(plans, user_id, plan.date)]
        /\ UNCHANGED <<now, sensordata, recs, pc, local, tieUp>>

\* int(m["value"]) succeeds: a number or a string of digits
IntOk(d) == d.kind \in {"num", "numstr"}
HasValue(d) == d.hasValue

RECURSIVE NumSum(_)
NumSum(cur) == IF cur = <<>> THEN 0 ELSE Head(cur).num + NumSum(Tail(cur))

\* int(x / n): truncation toward zero
TruncDiv(x, n) == IF x >= 0 THEN x \div n ELSE -((-x) \div n)

\* models.recommendation_doc(user_id, msg, context)
recommendation_doc(user_id, msg, context) ==
    [userId |-> user_id, message |-> msg, context |-> context]

\* the locals of generate_nudges up to the message
nudge_locals(sd, user_id) ==
    LET cursor == Take(SortTsDesc({d \in sd : d.userId = user_id /\ d.metricType = "Steps"}),
                       STEPS_LIMIT)
        with_value == SelectSeq(cursor, HasValue)
        raised == \E i \in DOMAIN with_value : ~IntOk(with_value[i])
        avg == IF with_value # <<>> THEN TruncDiv(NumSum(with_value), Len(with_value)) ELSE 0
        msg == IF avg < 300 THEN "Quick win: 10-minute brisk walk to boost your step count."
               ELSE IF avg < 2000 THEN "Great start! Add another short walk to hit your daily goal."
               ELSE "Nice pace! Add a 5-minute stretch break to stay loose."
    IN  [raised |-> raised, avg |-> avg, msg |-> msg]

\* generate_nudges(user_id, behavior_model, db), start to return or to the
\* exception int() raises in the list comprehension
generate_nudges(user_id) ==
    LET l == nudge_locals(sensordata, user_id)
        rec == recommendation_doc(user_id, l.msg, "nudge")
    IN  /\ Len(recs) < MaxNudges
        /\ IF l.raised
           THEN /\ recs' = recs
                /\ out' = [op |-> "generate_nudges", user |-> user_id, raised |-> TRUE]
           ELSE /\ recs' = Append(recs, rec)
                /\ out' = [op |-> "generate_nudges", user |-> user_id, raised |-> FALSE,
                           avg |-> l.avg, ret |-> rec]
        /\ UNCHANGED <<now, sensordata, plans, pc, local, calls, tieUp>>

----------------------------------------------------------------------------
(* The surroundings: the clock, sensor ingestion, plan completion          *)

Idle == [op |-> "idle"]
NoLocals == [user |-> None]

\* h hours pass.
Tick(h) ==
    /\ now + h <= MaxHour
    /\ now' = now + h
    /\ out' = Idle
    /\ UNCHANGED <<sensordata, plans, recs, pc, local, calls, tieUp>>

Sample(user_id, metric, ts, kind, num) ==
    [userId |-> user_id, metricType |-> metric, ts |-> ts,
     hasValue |-> kind # "missing", kind |-> kind, num |-> num]

\* A sensor reading taken at ts is stored (one reading per metric and instant).
Ingest(cap, user_id, metric, ts, kind, num) ==
    /\ Cardinality(sensordata) < cap
    /\ ~\E d \in sensordata : d.userId = user_id /\ d.metricType = metric /\ d.ts = ts
    /\ sensordata' = sensordata \cup {Sample(user_id, metric, ts, kind, num)}
    /\ out' = Idle
    /\ UNCHANGED <<now, plans, recs, pc, local, calls, tieUp>>

\* The user reports on a plan: its status changes, nothing else.
SetStatus(p, status) ==
    /\ p \in BagToSet(plans)
    /\ p.status # status
    /\ plans' = (plans (-) SetToBag({p})) (+) SetToBag({[p EXCEPT !.status = status]})
    /\ out' = Idle
    /\ UNCHANGED <<now, sensordata, recs, pc, local, calls, tieUp>>

\* h hours pass between two evaluations.
Elapse(h) ==
    /\ now + h <= MaxHour
    /\ now' = now + h
    /\ UNCHANGED <<sensordata, plans, recs, pc, local, calls, tieUp, out>>

\* A plan of an earlier request is on record for the day, with the status the
\* user gave it since.
PlanOnRecord(user_id, day, status, tier) ==
    /\ BagCardinality(plans) < MaxHistory
    /\ ~\E p \in BagToSet(plans) : p.userId = user_id /\ p.date = IsoFormat(day)
    /\ plans' = plans (+) SetToBag({plan_doc(user_id, base[tier], IsoFormat(day), status)})
    /\ out' = Idle
    /\ UNCHANGED <<now, sensordata, recs, pc, local, calls, tieUp>>

\* BehaviorModel.adherence_score(user_id, days) is called
adherence_call(user_id, days) ==
    /\ out' = [op |-> "adherence_score", user |-> user_id, days |-> days,
               ret |-> adherence_score(plans, now, user_id, days)]
    /\ UNCHANGED <<now, sensordata, plans, recs, pc, local, calls, tieUp>>

\* next_best_intensity that also stores what it recommends as today's plan
nbi_call_writes(user_id) ==
    LET seen == nbi_locals(sensordata, plans, now, user_id, tieUp)
        plan == build_plan(user_id, seen.target, now)
    IN  /\ out' = [op |-> "next_best_intensity", user |-> user_id, t |-> now,
                   seen |-> seen,
                   scores |-> readiness_locals(sensordata, now, user_id, tieUp),
                   again |-> /\ out.op = "next_best_intensity"
                             /\ out.user = user_id /\ out.t = now]
        /\ plans' = update_one_upsert(plans, user_id, plan.date, plan)
        /\ UNCHANGED <<now, sensordata, recs, pc, local, calls, tieUp>>

\* BehaviorModel.next_best_intensity(user_id) is called; again says that the
\* call before it was the same call at the same instant
nbi_call(user_id) ==
    /\ out' = [op |-> "next_best_intensity", user |-> user_id, t |-> now,
               seen |-> nbi_locals(sensordata, plans, now, user_id, tieUp),
               scores |-> readiness_locals(sensordata, now, user_id, tieUp),
               again |-> /\ out.op = "next_best_intensity"
                         /\ out.user = user_id /\ out.t = now]
    /\ UNCHANGED <<now, sensordata, plans, recs, pc, local, calls, tieUp>>

----------------------------------------------------------------------------
(* Spec: plan generation, one request after another                        *)

Init ==
    /\ now = 0
    /\ sensordata = {}
    /\ plans = EmptyBag
    /\ recs = <<>>
    /\ pc = [q \in {} |-> "idle"]
    /\ local = [q \in {} |-> None]
    /\ calls = 0
    /\ tieUp = FALSE
    /\ out = Idle

Next ==
    \/ Tick(36)
    \/ \E v \in {60, 100} : Ingest(MaxSamples, "u1", "HR", now, "num", v)
    \/ \E p \in BagToSet(plans) : SetStatus(p, "Completed")
    \/ \E u \in Users, bm \in BehaviorModels : generate_plan(u, bm)

Spec == Init /\ [][Next]_vars

----------------------------------------------------------------------------
(* SpecRace: generate_plan requests that overlap.  A request reads (the    *)
(* intensity computation, the date) in one step and writes (the upsert) in *)
(* a later one; other requests and the surroundings run in between.        *)

Requests == {1, 2}

\* generate_plan up to the plan document: the reads, the fallback, the date
gp_read(q, user_id, bm) ==
    LET res == bm_next_best_intensity(bm, sensordata, plans, now, user_id, tieUp)
        intensity == safe_intensity(res)
    IN  /\ pc[q] = "idle"
        /\ calls < MaxCalls
        /\ calls' = calls + 1
        /\ pc' = [pc EXCEPT ![q] = "upsert"]
        /\ local' = [local EXCEPT ![q] = [user |-> user_id, bm |-> bm,
                                          intensity |-> intensity,
                                          plan |-> build_plan(user_id, intensity, now)]]
        /\ out' = Idle
        /\ UNCHANGED <<now, sensordata, plans, recs, tieUp>>

\* generate_plan from the upsert to its return
gp_upsert(q) ==
    /\ pc[q] = "upsert"
    /\ plans' = update_one_upsert(plans, local[q].user, local[q].plan.date, local[q].plan)
    /\ pc' = [pc EXCEPT ![q] = "idle"]
    /\ local' = [local EXCEPT ![q] = NoLocals]
    /\ out' = [op |-> "generate_plan", user |-> local[q].user, bm |-> local[q].bm,
               intensity |-> local[q].intensity, ret |-> local[q].plan]
    /\ UNCHANGED <<now, sensordata, recs, calls, tieUp>>

InitRace ==
    /\ now = 0
    /\ sensordata = {}
    /\ plans = EmptyBag
    /\ recs = <<>>
    /\ pc = [q \in Requests |-> "idle"]
    /\ local = [q \in Requests |-> NoLocals]
    /\ calls = 0
    /\ tieUp = FALSE
    /\ out = Idle

\* A request takes far less than a clock step: the clock moves between requests.
NextRace ==
    \/ (\A q \in Requests : pc[q] = "idle") /\ Tick(36)
    \/ \E v \in {60, 100} : Ingest(MaxSamples, "u1", "HR", now, "num", v)
    \/ Ingest(MaxSamples, "u1", "SleepScore", now, "num", 20)
    \/ \E p \in BagToSet(plans) : SetStatus(p, "Completed")
    \/ \E q \in Requests, bm \in {"real", "raises"} : gp_read(q, "u1", bm)
    \/ \E q \in Requests : gp_upsert(q)

SpecRace == InitRace /\ [][NextRace]_vars

----------------------------------------------------------------------------
(* SpecPolicy: the classifier and the hysteresis of next_best_intensity    *)
(* over every pair of scores and a range of plan histories.                *)

Doc(user_id, day, status, items) == plan_doc(user_id, items, IsoFormat(day), status)
Habit == plan_item("Habit", "Low", 5, "Hydrate: +1L")
Workout(intensity) == plan_item("Workout", intensity, 30, "Session")

\* plan histories of u1: none, plans without a Workout item, the plans
\* generate_plan writes, plans written by other hands
PlanHistories ==
    { EmptyBag,
      SetToBag({Doc("u2", 1, "Proposed", base["High"])}),
      SetToBag({Doc("u1", 1, "Proposed", <<>>)}),
      SetToBag({Doc("u1", 0, "Completed", base["High"]), Doc("u1", 1, "Proposed", <<Habit>>)}),
      SetToBag({Doc("u1", 1, "Proposed", base["Low"])}),
      SetToBag({Doc("u1", 1, "Completed", base["Moderate"])}),
      SetToBag({Doc("u1", 1, "Proposed", base["High"])}),
      SetToBag({Doc("u1", 6, "Completed", base["High"]), Doc("u1", 7, "Proposed", base["Low"])}),
      SetToBag({Doc("u1", 1, "Proposed", <<Habit, Workout("High"), Workout("Low")>>)}),
      SetToBag({Doc("u1", 1, "Proposed", <<Workout(None), Workout("High")>>)}) }

InitPolicy ==
    /\ now = 8 * 24
    /\ sensordata = {}
    /\ plans \in PlanHistories
    /\ recs = <<>>
    /\ pc = <<>>
    /\ local \in [r : 10 .. 100, a : 0 .. 100]
    /\ calls = 0
    /\ tieUp = FALSE
    /\ out = Idle

\* next_best_intensity, from the thresholds on, for u1
PolicyCall ==
    /\ calls = 0
    /\ calls' = 1
    /\ out' = [op |-> "policy", user |-> "u1",
               seen |-> nbi_policy(local.r, local.a, plans, "u1")]
    /\ UNCHANGED <<now, sensordata, plans, recs, pc, local, tieUp>>

NextPolicy == PolicyCall

SpecPolicy == InitPolicy /\ [][NextPolicy]_vars

----------------------------------------------------------------------------
(* SpecAdherence: adherence_score over plan histories around the window    *)

EvalDay == 10
HistoryDays == {EvalDay - 8, EvalDay - 7, EvalDay - 6, EvalDay - 3, EvalDay - 1,
                EvalDay, EvalDay + 1}
Statuses == {"Proposed", "Completed", "Skipped"}

InitAdherence ==
    /\ now = 24 * EvalDay + 9
    /\ sensordata = {}
    /\ plans = SetToBag({Doc("u2", EvalDay, "Completed", base["Low"])})
    /\ recs = <<>>
    /\ pc = <<>>
    /\ local = <<>>
    /\ calls = 0
    /\ tieUp = FALSE
    /\ out = Idle

NextAdherence ==
    \/ \E day \in HistoryDays, st \in Statuses : PlanOnRecord("u1", day, st, "Moderate")
    \/ \E days \in {3, ADHERENCE_DAYS} : adherence_call("u1", days)

SpecAdherence == InitAdherence /\ [][NextAdherence]_vars

----------------------------------------------------------------------------
(* SpecMetrics: the operations that aggregate metric samples, over sample  *)
(* sets around the window edges, with values that do not convert           *)

EvalHour == 400
HRAges == {24, 25, 337}
SleepAges == {1, 2, 3, 168, 169}
StepsAges == 0 .. 6
\* <<kind, number>>
HRValues == {<<"num", 60>>, <<"numstr", 100>>, <<"text", 0>>, <<"nan", 0>>}
SleepValues == {<<"num", 5>>, <<"num", 150>>, <<"null", 0>>, <<"missing", 0>>}
StepsValues == {<<"num", 5000>>, <<"text", 0>>, <<"missing", 0>>}

InitMetrics ==
    /\ now = EvalHour
    /\ sensordata = {}
    /\ plans = SetToBag({Doc("u1", 15, "Completed", base["Moderate"]),
                         Doc("u1", 16, "Completed", base["Low"])})
    /\ recs = <<>>
    /\ pc = <<>>
    /\ local = <<>>
    /\ calls = 0
    /\ tieUp \in BOOLEAN
    /\ out = Idle

NextMetrics ==
    \/ \E age \in HRAges, v \in HRValues :
          Ingest(MaxReadings, "u1", "HR", now - age, v[1], v[2])
    \/ \E age \in SleepAges, v \in SleepValues :
          Ingest(MaxReadings, "u1", "SleepScore", now - age, v[1], v[2])
    \/ nbi_call("u1")

SpecMetrics == InitMetrics /\ [][NextMetrics]_vars

----------------------------------------------------------------------------
(* SpecNudges: the two operations that aggregate samples, with step counts *)
(* beyond the six that generate_nudges reads                               *)

InitNudges ==
    /\ now = EvalHour
    /\ sensordata = {}
    /\ plans = EmptyBag
    /\ recs = <<>>
    /\ pc = <<>>
    /\ local = <<>>
    /\ calls = 0
    /\ tieUp = FALSE
    /\ out = Idle

NextNudges ==
    \/ \E age \in StepsAges, v \in StepsValues :
          Ingest(MaxSteps, "u1", "Steps", now - age, v[1], v[2])
    \/ Ingest(MaxSteps, "u1", "HR", now - 1, "text", 0)
    \/ nbi_call("u1")
    \/ generate_nudges("u1")

SpecNudges == InitNudges /\ [][NextNudges]_vars

----------------------------------------------------------------------------
(* SpecEval: next_best_intensity evaluated again and again while the data  *)
(* stays as it is and the clock runs                                       *)

EvalSamples ==
    { Sample("u1", "HR", 0, "num", 60), Sample("u1", "HR", 30, "num", 100),
      Sample("u1", "HR", 40, "num", 60), Sample("u1", "SleepScore", 20, "num", 90),
      Sample("u1", "SleepScore", 45, "text", 0) }

InitEval ==
    /\ now = 48
    /\ sensordata \in SUBSET EvalSamples
    /\ plans \in {EmptyBag,
                  SetToBag({Doc("u1", 1, "Completed", base["Moderate"])}),
                  SetToBag({Doc("u1", 0, "Completed", base["High"]),
                            Doc("u1", 1, "Proposed", base["Low"])})}
    /\ recs = <<>>
    /\ pc = <<>>
    /\ local = <<>>
    /\ calls = 0
    /\ tieUp \in BOOLEAN
    /\ out = Idle

NextEval ==
    \/ Elapse(6)
    \/ \E u \in Users : nbi_call(u)

SpecEval == InitEval /\ [][NextEval]_vars

----------------------------------------------------------------------------
(* Vocabulary of the properties                                            *)

Abs(x) == IF x < 0 THEN -x ELSE x
Ord(tier) == CASE tier = "Low" -> 0 [] tier = "Moderate" -> 1 [] tier = "High" -> 2

\* the day a stored date string "YYYY-MM-DD" names, counted from 2023-12-25
DayOf(date) ==
    LET m == 10 * (date[6] - 48) + (date[7] - 48)
        d == 10 * (date[9] - 48) + (date[10] - 48)
    IN  IF m = 12 THEN d - 25 ELSE d + 6

DocsOf(pl, u) == {p \in BagToSet(pl) : p.userId = u}
DocsAt(pl, u, day) == {p \in DocsOf(pl, u) : DayOf(p.date) = day}
\* the user's documents of the latest date
MostRecent(pl, u) == {p \in DocsOf(pl, u) : \A q \in DocsOf(pl, u) : DayOf(q.date) <= DayOf(p.date)}
\* the intensities of a document's Workout items
WorkoutTiers(p) == {p.items[i].intensity : i \in {j \in DOMAIN p.items : p.items[j].type = "Workout"}}
WorkoutCount(p) == Cardinality({j \in DOMAIN p.items : p.items[j].type = "Workout"})

\* this step is a call of generate_plan by u that returned
PlanCall(u) == calls' = calls + 1 /\ out'.op = "generate_plan" /\ out'.user = u

----------------------------------------------------------------------------
\* the intensity field of the first Workout item of the user's most recent plan
FirstWorkoutOf(p) ==
    LET idx == {j \in DOMAIN p.items : p.items[j].type = "Workout"}
    IN  p.items[CHOOSE j \in idx : \A k \in idx : j <= k].intensity

(* C1: hysteresis.  With raw tier T and last Workout intensity L a tier,   *)
(* the result is Moderate when the ordinals of T and L differ by more than *)
(* one and T otherwise, so it is within one step of L; with no prior plan, *)
(* or a most recent plan without a Workout item, the result is T.          *)
C1_Hysteresis ==
    out.op = "policy" =>
        LET T == out.seen.raw
            res == out.seen.target
        IN  /\ T \in Tiers
            /\ \A p \in MostRecent(plans, "u1") :
                 IF WorkoutCount(p) = 0 THEN res = T
                 ELSE LET L == FirstWorkoutOf(p)
                      IN  L \in Tiers =>
                            /\ res = IF Abs(Ord(T) - Ord(L)) > 1 THEN "Moderate" ELSE T
                            /\ Abs(Ord(res) - Ord(L)) <= 1
            /\ DocsOf(plans, "u1") = {} => res = T

\* last = High, raw = Low: clamped to Moderate
C1_Witness ==
    /\ out.op = "policy"
    /\ out.seen.raw = "Low" /\ out.seen.target = "Moderate"
    /\ \E p \in MostRecent(plans, "u1") : WorkoutCount(p) = 1 /\ FirstWorkoutOf(p) = "High"

(* C2: the classifier.  The raw tier is High exactly when r > 0.8 and      *)
(* a >= 0.6, Moderate exactly when that fails and r >= 0.6, Low otherwise. *)
C2_Classifier ==
    out.op = "policy" =>
        LET r == local.r
            a == local.a
            T == out.seen.raw
        IN  /\ (T = "High") <=> (r > 80 /\ a >= 60)
            /\ (T = "Moderate") <=> (~(r > 80 /\ a >= 60) /\ r >= 60)
            /\ (T = "Low") <=> (r < 60)
            /\ T \in Tiers

\* r = 0.8 with a high adherence: Moderate, not High
C2_Witness ==
    out.op = "policy" /\ local.r = 80 /\ local.a = 100 /\ out.seen.raw = "Moderate"

(* C3: over generate_plan calls made one after another, the Workout        *)
(* intensity a call stores is at most one ordinal step away from the       *)
(* Workout intensity of the user's most recent plan as it was before the   *)
(* call, whatever the scores are and whether or not the intensity          *)
(* computation failed.                                                     *)
C3_OneStepPerCall ==
    [][\A u \in Users :
         PlanCall(u) =>
           /\ DocsAt(plans', u, Today(now)) # {}
           /\ \A s \in DocsAt(plans', u, Today(now)), p \in MostRecent(plans, u) :
                \A w \in WorkoutTiers(s), l \in WorkoutTiers(p) :
                    Abs(Ord(w) - Ord(l)) <= 1]_vars

\* a call whose classifier asked for a two-step jump and stored Moderate
C3_Witness ==
    /\ out.op = "generate_plan" /\ out.bm = "real"
    /\ out.seen.last_intensity = "High" /\ out.seen.raw = "Low"
    /\ out.intensity = "Moderate"
    /\ \E p \in DocsAt(plans, out.user, Today(now)) : WorkoutTiers(p) = {"Moderate"}

(* C4: when next_best_intensity raises, returns None or "", or returns a   *)
(* name that is no tier, generate_plan does not fail: it upserts and       *)
(* returns the plan of (user, today) whose Workout item is Moderate.       *)
C4_FallbackModerate ==
    (out.op = "generate_plan" /\ out.bm # "real") =>
        /\ out.ret \in DocsAt(plans, out.user, Today(now))
        /\ WorkoutTiers(out.ret) = {"Moderate"}
        /\ WorkoutCount(out.ret) = 1

\* a call whose intensity computation raised, over a last plan that was not Moderate
C4_Witness ==
    /\ out.op = "generate_plan" /\ out.bm = "raises"
    /\ WorkoutTiers(out.ret) = {"Moderate"}
    /\ \E p \in DocsOf(plans, out.user) : DayOf(p.date) < Today(now) /\ WorkoutTiers(p) = {"High"}

(* C5: adherence_score(user, days) is exactly 0.5 when the user has no     *)
(* plan dated today - days or later; otherwise it is the share of those    *)
(* plans whose status is Completed, rounded to two decimals, so it lies in *)
(* [0, 1]; any other status counts in the denominator only; 3 of 5 is 0.6. *)
C5_Adherence ==
    out.op = "adherence_score" =>
        LET W == {p \in DocsOf(plans, out.user) : DayOf(p.date) >= Today(now) - out.days}
            n == Cardinality(W)
            c == Cardinality({p \in W : p.status = "Completed"})
            a == out.ret
        IN  /\ n = 0 => a = 50
            /\ n > 0 => /\ 0 <= a /\ a <= 100
                        /\ 2 * Abs(100 * c - a * n) <= n
            /\ (c = 3 /\ n = 5) => a = 60

\* 3 Completed, 1 Proposed and 1 Skipped in the window, one plan before it
C5_Witness ==
    /\ out.op = "adherence_score" /\ out.days = 7 /\ out.ret = 60
    /\ \E p \in DocsOf(plans, "u1") : DayOf(p.date) = Today(now) - 8
    /\ \E p \in DocsOf(plans, "u1") : DayOf(p.date) = Today(now) - 7 /\ p.status = "Completed"
    /\ \E p \in DocsOf(plans, "u1") : p.status = "Proposed"
    /\ \E p \in DocsOf(plans, "u1") : p.status = "Skipped"

InUnit(x) == ~x.nan /\ x.d > 0 /\ 10 * x.n >= x.d /\ x.n <= x.d

(* C6: for every set of HR and SleepScore samples readiness_score is in    *)
(* [0.1, 1.0]: 0.4 * hrScore + 0.6 * sleepScore rounded to two decimals,   *)
(* each sub-score in [0.1, 1.0]; with no samples it is                     *)
(* 0.4 * 0.5 + 0.6 * 0.7; the classifier receives that readiness and an    *)
(* adherence in [0, 1].                                                    *)
C6_ReadinessRange ==
    out.op = "next_best_intensity" =>
        LET h == out.scores.hr_score
            sl == out.scores.sleep_score
            r == out.scores.readiness
            xn == 4 * h.n * sl.d + 6 * sl.n * h.d
            xd == 10 * h.d * sl.d
        IN  /\ InUnit(h) /\ InUnit(sl)
            /\ 10 <= r /\ r <= 100
            /\ 2 * Abs(100 * xn - r * xd) <= xd
            /\ out.seen.r = r
            /\ 0 <= out.seen.a /\ out.seen.a <= 100
            /\ sensordata = {} => r = 62

\* both sub-scores at their floor: a heart rate far above baseline, poor sleep
C6_Witness ==
    /\ out.op = "next_best_intensity"
    /\ out.scores.readiness = 10
    /\ \E d \in sensordata : ~FloatOk(d)

\* a sample whose value is a number, a numeric string or NaN
Usable(d) == d.hasValue /\ d.kind \in {"num", "numstr", "nan"}
\* the six newest step samples, and the usable ones among them
NewestSteps(u) ==
    LET mine == {d \in sensordata : d.userId = u /\ d.metricType = "Steps"}
    IN  {d \in mine : Cardinality({e \in mine : e.ts > d.ts}) < STEPS_LIMIT}
SumOf(S) == LET RECURSIVE Sum(_)
                Sum(T) == IF T = {} THEN 0
                          ELSE LET d == CHOOSE x \in T : TRUE IN d.num + Sum(T \ {d})
            IN  Sum(S)

(* C7: readiness_score (through _values) and generate_nudges skip each     *)
(* sample whose value is missing or is not numeric, aggregate the others,  *)
(* and never fail because of such a sample.                                *)
C7_SkipsUnusable ==
    /\ out.op = "next_best_intensity" =>
          out.scores = readiness_locals({d \in sensordata : Usable(d)}, now, out.user, tieUp)
    /\ out.op = "generate_nudges" =>
          LET good == {d \in NewestSteps(out.user) : Usable(d)}
          IN  /\ ~out.raised
              /\ out.avg = IF good = {} THEN 0 ELSE SumOf(good) \div Cardinality(good)

\* a step in which next_best_intensity returns
Evaluated == out' # out /\ out'.op = "next_best_intensity"

(* C8 as stated: next_best_intensity changes no plan and no sample, and    *)
(* evaluations of one user over the same samples and plans on the same     *)
(* date return the same tier.                                              *)
C8_SameDateSameTier ==
    [][Evaluated =>
         /\ sensordata' = sensordata /\ plans' = plans /\ recs' = recs
         /\ (/\ out.op = "next_best_intensity" /\ out.user = out'.user
             /\ Today(out.t) = Today(out'.t))
                => out'.seen.target = out.seen.target]_vars

(* C8 amended: next_best_intensity changes no plan and no sample, and      *)
(* evaluations of one user over the same samples and plans at the same     *)
(* instant return the same tier.                                           *)
C8_PureRead ==
    [][Evaluated =>
         /\ sensordata' = sensordata /\ plans' = plans /\ recs' = recs
         /\ (/\ out.op = "next_best_intensity" /\ out.user = out'.user
             /\ out.t = out'.t)
                => out'.seen.target = out.seen.target]_vars

\* a second evaluation at the same instant, over samples and a plan history
C8_Witness ==
    /\ out.op = "next_best_intensity" /\ out.again
    /\ Cardinality(sensordata) >= 3
    /\ DocsOf(plans, out.user) # {}
    /\ out.seen.target = "Low"

\* no document twice, no two documents of one user and date
OnePerKey(pl) ==
    \A p \in BagToSet(pl) :
        /\ CopiesIn(p, pl) = 1
        /\ \A q \in BagToSet(pl) : (q.userId = p.userId /\ q.date = p.date) => q = p

\* the tier of the plan a call builds: its intensity, Moderate when that names no tier
ChosenTier(intensity) == IF intensity \in Tiers THEN intensity ELSE "Moderate"

(* C9: the store holds at most one record per (userId, date); a call of    *)
(* generate_plan changes no record but the one keyed (user, today), which  *)
(* it leaves Proposed with exactly one Workout item, of the tier the call  *)
(* chose, whatever status and items it had.                                *)
C9_UpsertFrame ==
    [][/\ OnePerKey(plans')
       /\ \A u \in Users :
            PlanCall(u) =>
              /\ \A p \in BagToSet(plans) \cup BagToSet(plans') :
                    (p.userId # u \/ DayOf(p.date) # Today(now))
                        => CopiesIn(p, plans') = CopiesIn(p, plans)
              /\ \E s \in DocsAt(plans', u, Today(now)) :
                    /\ DocsAt(plans', u, Today(now)) = {s}
                    /\ s.status = "Proposed"
                    /\ WorkoutCount(s) = 1
                    /\ WorkoutTiers(s) = {ChosenTier(out'.intensity)}]_vars

\* a call that replaced a Completed plan of today while other records were stored
C9_Witness ==
    /\ out.op = "generate_plan" /\ out.replaced = "Completed"
    /\ \E p \in BagToSet(plans) : p.userId # out.user \/ DayOf(p.date) # Today(now)
    /\ \E s \in DocsAt(plans, out.user, Today(now)) :
          s.status = "Proposed" /\ WorkoutTiers(s) # {"Moderate"}

(* C10: when generate_plan requests of one user overlap, every upsert      *)
(* stores a Workout intensity within one ordinal step of the Workout       *)
(* intensity of the user's most recent plan at the moment of the upsert.   *)
C10_OneStepPerUpsert ==
    [][\A q \in Requests :
         (pc[q] = "upsert" /\ pc'[q] = "idle") =>
           \A p \in MostRecent(plans, local[q].user) :
             \A l \in WorkoutTiers(p), w \in WorkoutTiers(local[q].plan) :
                 Abs(Ord(w) - Ord(l)) <= 1]_vars

=============================================================================
